---- MODULE Spec2Model ----
(***************************************************************************)
(* zk-tic-tac-toe: the game engine (game/src/lib.rs), the guest program    *)
(* that applies one move inside the zkVM (methods/guest/src/main.rs) and   *)
(* the host's verifier record (host/src/main.rs).                          *)
(*                                                                         *)
(* Indexing follows the source: board[y][x], both 0-based.                 *)
(***************************************************************************)
EXTENDS Integers, Sequences, FiniteSets, TLC

\* const CELL_COUNT: usize = 3;
CELL_COUNT == 3

\* Largest coordinate a caller supplies; CELL_COUNT and above are out of bounds.
MaxCoord == 3

Idx == 0 .. (CELL_COUNT - 1)

\* enum Player { A, B }
Player == {"A", "B"}

\* enum Cell { Player1, Player2, Vacant }
Cell == {"Player1", "Player2", "Vacant"}

\* enum State { InProgress, Stalemate, Winner(Player) }
InProgress == [tag |-> "InProgress"]
Stalemate == [tag |-> "Stalemate"]
Winner(p) == [tag |-> "Winner", player |-> p]
State == {InProgress, Stalemate} \cup {Winner(p) : p \in Player}

\* The outcome of update_state when it runs into its unreachable!() arm.
Unreachable == [tag |-> "Unreachable"]

\* struct Point { x: usize, y: usize }, Point::new
NewPoint(x, y) == [x |-> x, y |-> y]
Points == {NewPoint(x, y) : x \in 0 .. MaxCoord, y \in 0 .. MaxCoord}

\* Player::flip
Flip(p) == IF p = "A" THEN "B" ELSE "A"

\* Into<Cell> that maps both players to Player1.
IntoCell_AlwaysPlayer1(p) == "Player1"

\* impl Into<Cell> for Player
IntoCell(p) == IF p = "A" THEN "Player1" ELSE "Player2"

\* TicTacToe::new
New ==
    [board |-> [y \in Idx |-> [x \in Idx |-> "Vacant"]],
     previous |-> "B",
     state |-> InProgress]

(***************************************************************************)
(* update_state.  Its locals has_vacant, left_diag, right_diag, horizontal *)
(* and vertical are flags that the loops update independently of each      *)
(* other, so each loop is written once per flag it updates.                *)
(***************************************************************************)
\* The inner `for x` loop on `horizontal`, from x on (lines 144-146).
RECURSIVE HorizontalLoop(_, _, _, _)
HorizontalLoop(board, y, x, horizontal) ==
    IF x >= CELL_COUNT THEN horizontal
    ELSE HorizontalLoop(board, y, x + 1,
                        IF horizontal /\ x > 0
                        THEN board[y][x] = board[y][x - 1]
                        ELSE horizontal)

\* The inner `for x` loop on `vertical`, from x on (lines 148-150).
RECURSIVE VerticalLoop(_, _, _, _)
VerticalLoop(board, y, x, vertical) ==
    IF x >= CELL_COUNT THEN vertical
    ELSE VerticalLoop(board, y, x + 1,
                      IF vertical /\ x > 0
                      THEN board[x][y] = board[x - 1][y]
                      ELSE vertical)

\* The inner `for x` loop on `has_vacant`, from x on (lines 140-142).
RECURSIVE VacantLoop(_, _, _, _)
VacantLoop(board, y, x, has_vacant) ==
    IF x >= CELL_COUNT THEN has_vacant
    ELSE VacantLoop(board, y, x + 1, has_vacant \/ board[y][x] = "Vacant")

\* `horizontal` seeded with true instead of board[y][0] != Vacant.
Horizontal_SeedTrue(board, y) == HorizontalLoop(board, y, 0, TRUE)

\* `horizontal` and `vertical` when the inner loop of iteration y is over.
Horizontal(board, y) == HorizontalLoop(board, y, 0, board[y][0] # "Vacant")

Vertical(board, y) == VerticalLoop(board, y, 0, board[0][y] # "Vacant")

\* The step of left_diag at iteration y (lines 126-128).
LeftDiagStep(board, y, left_diag) ==
    IF left_diag /\ y > 0
    THEN board[y][y] = board[y - 1][y - 1]
    ELSE left_diag

\* The step of right_diag at iteration y (lines 130-135).
RightDiagStep(board, y, right_diag) ==
    IF right_diag /\ y > 0
    THEN LET last_index == CELL_COUNT - 1
         IN board[y][last_index - y] = board[y - 1][last_index - y + 1]
    ELSE right_diag

\* The outer `for y` loop from y on, with its two `break`s; the locals it
\* leaves, winner being "None" or a Cell.
RECURSIVE OuterLoop(_, _, _, _, _)
OuterLoop(board, y, has_vacant, left_diag, right_diag) ==
    IF y >= CELL_COUNT
    THEN [has_vacant |-> has_vacant, left_diag |-> left_diag,
          right_diag |-> right_diag, winner |-> "None"]
    ELSE IF Horizontal(board, y)
         THEN [has_vacant |-> VacantLoop(board, y, 0, has_vacant),
               left_diag |-> LeftDiagStep(board, y, left_diag),
               right_diag |-> RightDiagStep(board, y, right_diag),
               winner |-> board[y][0]]
         ELSE IF Vertical(board, y)
              THEN [has_vacant |-> VacantLoop(board, y, 0, has_vacant),
                    left_diag |-> LeftDiagStep(board, y, left_diag),
                    right_diag |-> RightDiagStep(board, y, right_diag),
                    winner |-> board[0][y]]
              ELSE OuterLoop(board, y + 1,
                             VacantLoop(board, y, 0, has_vacant),
                             LeftDiagStep(board, y, left_diag),
                             RightDiagStep(board, y, right_diag))

\* The scan: the loops started from the initial values of the locals.
Scan(board) ==
    OuterLoop(board, 0, FALSE,
              board[0][0] # "Vacant",
              board[0][CELL_COUNT - 1] # "Vacant")

\* Lines 166-172: the diagonal flags override the recorded winner.
DiagOverride(board, st) ==
    LET w1 == IF st.left_diag THEN board[0][0] ELSE st.winner
    IN IF st.right_diag THEN board[0][CELL_COUNT - 1] ELSE w1

\* Decide without the `else if !has_vacant` arm: a full board with no line
\* keeps the old status.
Decide_NoStalemate(winner, has_vacant, old) ==
    IF winner # "None"
    THEN CASE winner = "Player1" -> Winner("A")
           [] winner = "Player2" -> Winner("B")
           [] OTHER -> Unreachable
    ELSE old

\* Decide with the stalemate test inverted (has_vacant for !has_vacant).
Decide_StalemateOnVacant(winner, has_vacant, old) ==
    IF winner # "None"
    THEN CASE winner = "Player1" -> Winner("A")
           [] winner = "Player2" -> Winner("B")
           [] OTHER -> Unreachable
    ELSE IF has_vacant THEN Stalemate ELSE old

\* Lines 174-184: the new value of self.state.
Decide(winner, has_vacant, old) ==
    IF winner # "None"
    THEN CASE winner = "Player1" -> Winner("A")
           [] winner = "Player2" -> Winner("B")
           [] OTHER -> Unreachable
    ELSE IF ~has_vacant THEN Stalemate ELSE old

\* TicTacToe::update_state, as the value of self.state it leaves.
update_state(g) ==
    LET st == Scan(g.board)
    IN Decide(DiagOverride(g.board, st), st.has_vacant, g.state)

\* point.x >= CELL_COUNT || point.y >= CELL_COUNT
OutOfBounds(point) == point.x >= CELL_COUNT \/ point.y >= CELL_COUNT

\* Place that marks the cell but forgets `self.previous = current`.
Place_NoTurnChange(g, point) ==
    LET current == Flip(g.previous)
        marked == [g EXCEPT !.board[point.y][point.x] = IntoCell(current)]
    IN [marked EXCEPT !.state = update_state(marked)]

\* Lines 96-101 of make_move: the mutation, once the point is accepted.
Place(g, point) ==
    LET current == Flip(g.previous)
        marked == [g EXCEPT !.previous = current,
                            !.board[point.y][point.x] = IntoCell(current)]
    IN [marked EXCEPT !.state = update_state(marked)]

\* make_move that sets `self.previous` before it validates the point.
make_move_FlipFirst(g, point) ==
    IF g.state # InProgress
    THEN [game |-> g, result |-> "GameFinished"]
    ELSE IF OutOfBounds(point)
         THEN [game |-> [g EXCEPT !.previous = Flip(g.previous)],
               result |-> "PointOutOfBounds"]
         ELSE IF g.board[point.y][point.x] # "Vacant"
              THEN [game |-> g, result |-> "CellOccupied"]
              ELSE [game |-> Place(g, point), result |-> "Ok"]

\* make_move without the test of the target cell.
make_move_NoOccupiedCheck(g, point) ==
    IF g.state # InProgress
    THEN [game |-> g, result |-> "GameFinished"]
    ELSE IF OutOfBounds(point)
         THEN [game |-> g, result |-> "PointOutOfBounds"]
         ELSE [game |-> Place(g, point), result |-> "Ok"]

\* make_move that tests the bounds before the status.
make_move_BoundsFirst(g, point) ==
    IF OutOfBounds(point)
    THEN [game |-> g, result |-> "PointOutOfBounds"]
    ELSE IF g.state # InProgress
         THEN [game |-> g, result |-> "GameFinished"]
         ELSE IF g.board[point.y][point.x] # "Vacant"
              THEN [game |-> g, result |-> "CellOccupied"]
              ELSE [game |-> Place(g, point), result |-> "Ok"]

\* make_move without the test of the status (lines 83-85 left out).
make_move_NoFinishedCheck(g, point) ==
    IF OutOfBounds(point)
    THEN [game |-> g, result |-> "PointOutOfBounds"]
    ELSE IF g.board[point.y][point.x] # "Vacant"
         THEN [game |-> g, result |-> "CellOccupied"]
         ELSE [game |-> Place(g, point), result |-> "Ok"]

\* TicTacToe::make_move: the object after the call and the value returned.
make_move(g, point) ==
    IF g.state # InProgress
    THEN [game |-> g, result |-> "GameFinished"]
    ELSE IF OutOfBounds(point)
         THEN [game |-> g, result |-> "PointOutOfBounds"]
         ELSE IF g.board[point.y][point.x] # "Vacant"
              THEN [game |-> g, result |-> "CellOccupied"]
              ELSE [game |-> Place(g, point), result |-> "Ok"]

(***************************************************************************)
(* The canonical bytes and their hash.                                     *)
(***************************************************************************)
\* #[repr(u8)] enum Cell: the discriminants in declaration order.
CellByte(c) == CASE c = "Player1" -> 0 [] c = "Player2" -> 1 [] OTHER -> 2

\* #[repr(u8)] enum Player
PlayerByte(p) == IF p = "A" THEN 0 ELSE 1

\* enum State has no repr: rustc stores it in the one byte of its Player
\* payload, the dataless variants taking the values Player leaves free.
StateByte(s) ==
    CASE s = Winner("A") -> 0
      [] s = Winner("B") -> 1
      [] s = InProgress -> 2
      [] OTHER -> 3

\* TicTacToe::as_bytes: the struct reinterpreted as bytes, fields in order
\* (repr(C), alignment 1): the board row by row, previous, state.
as_bytes(g) ==
    <<CellByte(g.board[0][0]), CellByte(g.board[0][1]), CellByte(g.board[0][2]),
      CellByte(g.board[1][0]), CellByte(g.board[1][1]), CellByte(g.board[1][2]),
      CellByte(g.board[2][0]), CellByte(g.board[2][1]), CellByte(g.board[2][2]),
      PlayerByte(g.previous), StateByte(g.state)>>

\* Impl::hash_bytes (SHA-256), taken to be injective: the digest stands for
\* the bytes it was computed from.
hash_bytes(bytes) == [sha256 |-> bytes]

\* TicTacToe::initial_hash
initial_hash == hash_bytes(as_bytes(New))

(***************************************************************************)
(* The guest program and the receipt of one run of it.                     *)
(***************************************************************************)
\* The guest with `let _ = game.make_move(point);` for the unwrap: a rejected
\* move is swallowed and the unchanged game committed.
guest_main_IgnoresError(g, p) ==
    [committed |-> TRUE,
     journal |-> [game |-> make_move(g, p).game,
                  prev_state_hash |-> hash_bytes(as_bytes(g))]]

\* guest main: reads a game and a point, hashes the game, applies the move
\* (unwrap: any MoveError aborts the run) and commits the VmResponse.
guest_main(g, p) ==
    LET prev_state_hash == hash_bytes(as_bytes(g))
        r == make_move(g, p)
    IN IF r.result = "Ok"
       THEN [committed |-> TRUE,
             journal |-> [game |-> r.game, prev_state_hash |-> prev_state_hash]]
       ELSE [committed |-> FALSE]

\* executor.run().unwrap() on a guest that aborted: the host panics.
Panicked == [panicked |-> TRUE]

\* Server::execute_move: the receipt of a run that committed; its seal binds
\* the journal the guest committed, and nothing else produces a seal.  A run
\* that aborted yields no receipt: the unwrap panics.
execute_move(g, p) ==
    LET run == guest_main(g, p)
    IN IF run.committed
       THEN [journal |-> run.journal, seal |-> run.journal]
       ELSE Panicked

NoReceipt == [none |-> TRUE]

\* receipt.verify(MAKE_MOVE_ID): the seal is the guest's, for this journal.
receipt_verify(r) == r.seal = r.journal

\* Client::new
NewClient == [game_state |-> InProgress, state_hash |-> initial_hash]

\* verify_receipt without the comparison of the hashes.
verify_receipt_NoHashCheck(c, r) ==
    IF c.game_state # InProgress
    THEN [client |-> c, verdict |-> "AlreadyEnded"]
    ELSE IF ~receipt_verify(r)
         THEN [client |-> c, verdict |-> "ProofInvalid"]
         ELSE [client |->
                   [game_state |-> r.journal.game.state,
                    state_hash |-> hash_bytes(as_bytes(r.journal.game))],
               verdict |-> "Ok"]

\* verify_receipt that stores the new hash before it compares the old one.
verify_receipt_AssignFirst(c, r) ==
    IF c.game_state # InProgress
    THEN [client |-> c, verdict |-> "AlreadyEnded"]
    ELSE IF ~receipt_verify(r)
         THEN [client |-> c, verdict |-> "ProofInvalid"]
         ELSE IF c.state_hash # r.journal.prev_state_hash
              THEN [client |->
                        [c EXCEPT !.state_hash =
                                      hash_bytes(as_bytes(r.journal.game))],
                    verdict |-> "HashMismatch"]
              ELSE [client |->
                        [game_state |-> r.journal.game.state,
                         state_hash |-> hash_bytes(as_bytes(r.journal.game))],
                    verdict |-> "Ok"]

\* verify_receipt without its first assertion (the game has not ended).
verify_receipt_NoEndedCheck(c, r) ==
    IF ~receipt_verify(r)
    THEN [client |-> c, verdict |-> "ProofInvalid"]
    ELSE IF c.state_hash # r.journal.prev_state_hash
         THEN [client |-> c, verdict |-> "HashMismatch"]
         ELSE [client |->
                   [game_state |-> r.journal.game.state,
                    state_hash |-> hash_bytes(as_bytes(r.journal.game))],
               verdict |-> "Ok"]

\* verify_receipt that forgets `self.game_state = resp.game.state()`.
verify_receipt_KeepsStatus(c, r) ==
    IF c.game_state # InProgress
    THEN [client |-> c, verdict |-> "AlreadyEnded"]
    ELSE IF ~receipt_verify(r)
         THEN [client |-> c, verdict |-> "ProofInvalid"]
         ELSE IF c.state_hash # r.journal.prev_state_hash
              THEN [client |-> c, verdict |-> "HashMismatch"]
              ELSE [client |->
                        [game_state |-> c.game_state,
                         state_hash |-> hash_bytes(as_bytes(r.journal.game))],
                    verdict |-> "Ok"]

\* verify_receipt that hashes the game it already held, not the new one.
verify_receipt_StaleHash(c, r) ==
    IF c.game_state # InProgress
    THEN [client |-> c, verdict |-> "AlreadyEnded"]
    ELSE IF ~receipt_verify(r)
         THEN [client |-> c, verdict |-> "ProofInvalid"]
         ELSE IF c.state_hash # r.journal.prev_state_hash
              THEN [client |-> c, verdict |-> "HashMismatch"]
              ELSE [client |->
                        [game_state |-> r.journal.game.state,
                         state_hash |-> r.journal.prev_state_hash],
                    verdict |-> "Ok"]

\* verify_receipt with the assertion that the game has not ended moved
\* behind the other two tests.
verify_receipt_EndedCheckLast(c, r) ==
    IF ~receipt_verify(r)
    THEN [client |-> c, verdict |-> "ProofInvalid"]
    ELSE IF c.state_hash # r.journal.prev_state_hash
         THEN [client |-> c, verdict |-> "HashMismatch"]
         ELSE IF c.game_state # InProgress
              THEN [client |-> c, verdict |-> "AlreadyEnded"]
              ELSE [client |->
                        [game_state |-> r.journal.game.state,
                         state_hash |-> hash_bytes(as_bytes(r.journal.game))],
                    verdict |-> "Ok"]

\* verify_receipt that compares the receipt's previous hash with the hash of
\* the initial game, not with the hash the client holds.
verify_receipt_ChecksInitialHash(c, r) ==
    IF c.game_state # InProgress
    THEN [client |-> c, verdict |-> "AlreadyEnded"]
    ELSE IF ~receipt_verify(r)
         THEN [client |-> c, verdict |-> "ProofInvalid"]
         ELSE IF initial_hash # r.journal.prev_state_hash
              THEN [client |-> c, verdict |-> "HashMismatch"]
              ELSE [client |->
                        [game_state |-> r.journal.game.state,
                         state_hash |-> hash_bytes(as_bytes(r.journal.game))],
                    verdict |-> "Ok"]

\* Client::verify_receipt: the record after the call and how the call ended.
\* A failed assert_eq! or expect panics out of the call before either
\* assignment; the verdict names which one ("Ok": the call returned).
verify_receipt(c, r) ==
    IF c.game_state # InProgress
    THEN [client |-> c, verdict |-> "AlreadyEnded"]
    ELSE IF ~receipt_verify(r)
         THEN [client |-> c, verdict |-> "ProofInvalid"]
         ELSE IF c.state_hash # r.journal.prev_state_hash
              THEN [client |-> c, verdict |-> "HashMismatch"]
              ELSE [client |->
                        [game_state |-> r.journal.game.state,
                         state_hash |-> hash_bytes(as_bytes(r.journal.game))],
                    verdict |-> "Ok"]

\* Client::on_game_ended: its assert_ne! holds.
on_game_ended(c) == c.game_state # InProgress

VARIABLES
    game,      \* the TicTacToe object make_move is called on
    point,     \* the argument of the last make_move call
    result,    \* what the last make_move call returned ("None" before any)
    before,    \* the object as it was when the last call started
    moves,     \* how many calls returned Ok so far
    player_a,  \* main's first Client
    player_b,  \* main's second Client
    receipt,   \* the receipt in the server's hands (NoReceipt before any)
    verdict,   \* how the last verify_receipt call on this receipt ended
    target,    \* the client the receipts are submitted to
    held,      \* the game whose hash the target holds
    prior,     \* the game whose hash the target held before it last accepted
    accepted,  \* the receipt the target accepted last (NoReceipt before any)
    was,       \* the target's record when the last verify_receipt call started
    replay,    \* the last verify_receipt call was given the receipt accepted last
    history,   \* the receipts the target accepted, in the order it accepted them
    pc,        \* where main is
    panic      \* the call of main that panicked ("None": none did)

engine == <<game, point, result, before, moves>>
protocol ==
    <<player_a, player_b, receipt, verdict, target, held, prior, accepted,
      was, replay>>
host == <<history, pc, panic>>
vars == <<engine, protocol, host>>

InitEngine ==
    /\ game = New
    /\ point = NewPoint(0, 0)
    /\ result = "None"
    /\ before = New
    /\ moves = 0

InitProtocol ==
    /\ player_a = NewClient
    /\ player_b = NewClient
    /\ receipt = NoReceipt
    /\ verdict = "None"
    /\ held = New
    /\ prior = New
    /\ accepted = NoReceipt
    /\ was = NewClient
    /\ replay = FALSE
    /\ history = <<>>
    /\ pc = "loop"
    /\ panic = "None"

(***************************************************************************)
(* The engine alone: any sequence of make_move calls on a fresh object.    *)
(***************************************************************************)
InitGame == InitEngine /\ InitProtocol /\ target = "player_a"

CallMakeMove(p) ==
    LET r == make_move(game, p)
    IN /\ game' = r.game
       /\ point' = p
       /\ result' = r.result
       /\ before' = game
       /\ moves' = IF r.result = "Ok" THEN moves + 1 ELSE moves
       /\ UNCHANGED <<protocol, host>>

NextGame == \E p \in Points : CallMakeMove(p)

SpecGame == InitGame /\ [][NextGame]_vars

(***************************************************************************)
(* One verifier against a server that is free to do anything it can: prove *)
(* a move from any game it likes, alter a receipt, submit any receipt any  *)
(* number of times.  A call that panics leaves the record as it was, and   *)
(* the server goes on submitting to it, as a caller that catches the       *)
(* unwind can; main itself stops at the first panic.                       *)
(***************************************************************************)
Clients == {"player_a", "player_b"}

Target == IF target = "player_a" THEN player_a ELSE player_b

\* The points the server moves with: the first NumAdvCells cells of
\* AdvCellOrder and one point off the board.
NumAdvCells == 5

AdvCellOrder ==
    <<NewPoint(0, 0), NewPoint(1, 0), NewPoint(0, 1), NewPoint(1, 1),
      NewPoint(0, 2), NewPoint(2, 0), NewPoint(2, 2), NewPoint(2, 1),
      NewPoint(1, 2)>>

AdvPoints ==
    {AdvCellOrder[i] : i \in 1 .. NumAdvCells} \cup {NewPoint(CELL_COUNT, 0)}

\* The receipt in hand would be accepted by the target as it stands.
InHandFits ==
    /\ receipt # NoReceipt
    /\ receipt_verify(receipt)
    /\ receipt.journal.prev_state_hash = Target.state_hash

\* The games the server runs the guest on: the initial one, the one the
\* target holds, the one it held before, the one an acceptable receipt in
\* hand leads to, and the held one with its status or its turn forged.
ProverInputs ==
    {New, held, prior}
    \cup (IF InHandFits THEN {receipt.journal.game} ELSE {})
    \cup {[held EXCEPT !.state = s] : s \in State}
    \cup {[held EXCEPT !.previous = Flip(held.previous)]}

InitVerifier == InitEngine /\ InitProtocol /\ target \in Clients

\* The server proves a move: execute_move on a game and a point of its choice.
Prove(g, p) ==
    \E r \in {execute_move(g, p)} :
       /\ r # Panicked
       /\ receipt' = r
       /\ verdict' = "None"
       /\ replay' = FALSE
       /\ UNCHANGED <<engine, host, player_a, player_b, target, held, prior,
                      accepted, was>>

\* The server rewrites the status in the journal of a receipt the target
\* would accept: the resulting state is altered after proving.
TamperState(s) ==
    /\ InHandFits
    /\ s # receipt.journal.game.state
    /\ receipt' = [receipt EXCEPT !.journal.game.state = s]
    /\ verdict' = "None"
    /\ replay' = FALSE
    /\ UNCHANGED <<engine, host, player_a, player_b, target, held, prior, accepted, was>>

\* The server rewrites the previous-state hash in the journal of a receipt
\* the target would refuse to the hash the target holds.
TamperHash ==
    /\ receipt # NoReceipt
    /\ receipt_verify(receipt)
    /\ receipt.journal.prev_state_hash # Target.state_hash
    /\ receipt' = [receipt EXCEPT !.journal.prev_state_hash = Target.state_hash]
    /\ verdict' = "None"
    /\ replay' = FALSE
    /\ UNCHANGED <<engine, host, player_a, player_b, target, held, prior, accepted, was>>

\* target.verify_receipt(&receipt) on the receipt in hand.
Submit ==
    /\ receipt # NoReceipt
    /\ LET v == verify_receipt(Target, receipt)
       IN /\ verdict' = v.verdict
          /\ player_a' = IF target = "player_a" THEN v.client ELSE player_a
          /\ player_b' = IF target = "player_b" THEN v.client ELSE player_b
          /\ held' = IF v.verdict = "Ok" THEN receipt.journal.game ELSE held
          /\ prior' = IF v.verdict = "Ok" THEN held ELSE prior
          /\ accepted' = IF v.verdict = "Ok" THEN receipt ELSE accepted
    /\ was' = Target
    /\ replay' = (receipt = accepted)
    /\ UNCHANGED <<engine, receipt, target, pc, panic>>

\* The server submits the receipt in hand.
Deliver == Submit /\ UNCHANGED history

NextVerifier ==
    \/ \E g \in ProverInputs, p \in AdvPoints : Prove(g, p)
    \/ \E s \in State : TamperState(s)
    \/ TamperHash
    \/ Deliver

SpecVerifier == InitVerifier /\ [][NextVerifier]_vars

(***************************************************************************)
(* One verifier against a server that proves honestly but submits out of   *)
(* order: it proves moves from the current game or from any game of the    *)
(* play so far, and submits again receipts the client accepted earlier.    *)
(* It submits every receipt it takes in hand before it takes another.      *)
(* history is the sequence of the receipts the client has accepted.        *)
(***************************************************************************)
InitStale == InitEngine /\ InitProtocol /\ target = "player_a"

\* The games of the play so far: the initial one and the accepted ones.
PlayedGames ==
    {New} \cup {history[i].journal.game : i \in 1 .. Len(history)}

\* The server has submitted the receipt in hand, if it has one.
Submitted == receipt = NoReceipt \/ verdict # "None"

\* The server proves a move from a game of the play so far.
ProveStale(g, p) == Submitted /\ Prove(g, p)

\* The server takes up again the i-th receipt the client accepted.
Resubmit(i) ==
    /\ Submitted
    /\ receipt # history[i]
    /\ receipt' = history[i]
    /\ verdict' = "None"
    /\ replay' = FALSE
    /\ UNCHANGED <<engine, host, player_a, player_b, target, held, prior,
                   accepted, was>>

\* The server submits the receipt in hand; an accepted one is recorded.
DeliverLogged ==
    /\ verdict = "None"
    /\ Submit
    /\ history' = IF verdict' = "Ok" THEN Append(history, receipt)
                  ELSE history

NextStale ==
    \/ \E g \in PlayedGames, p \in AdvPoints : ProveStale(g, p)
    \/ \E i \in 1 .. Len(history) : Resubmit(i)
    \/ DeliverLogged

SpecStale == InitStale /\ [][NextStale]_vars

(***************************************************************************)
(* main: the server's turn loop with the honest prover and both clients.   *)
(* pc is "loop" at the loop's test, "verify_a", "verify_b" and "adopt"     *)
(* before lines 48, 49 and 51, "ended_a" and "ended_b" before lines 62 and *)
(* 63, "done" at the end and "panicked" once a call has panicked.          *)
(***************************************************************************)
Init == InitEngine /\ InitProtocol /\ target = "player_a"

\* Lines 35-46: the loop's test holds, a point is read and execute_move runs.
Turn(p) ==
    /\ pc = "loop"
    /\ game.state = InProgress
    /\ point' = p
    /\ \E r \in {execute_move(game, p)} :
          IF r = Panicked
          THEN /\ pc' = "panicked"
               /\ panic' = "execute_move"
               /\ UNCHANGED receipt
          ELSE /\ pc' = "verify_a"
               /\ receipt' = r
               /\ UNCHANGED panic
    /\ UNCHANGED <<game, result, before, moves, player_a, player_b, verdict,
                   target, held, prior, accepted, was, replay, history>>

\* Line 48: player_a.verify_receipt(&receipt).
VerifyA ==
    /\ pc = "verify_a"
    /\ \E v \in {verify_receipt(player_a, receipt)} :
          /\ player_a' = v.client
          /\ verdict' = v.verdict
          /\ pc' = IF v.verdict = "Ok" THEN "verify_b" ELSE "panicked"
          /\ panic' = IF v.verdict = "Ok" THEN panic ELSE "verify_receipt"
    /\ UNCHANGED <<engine, player_b, receipt, target, held, prior, accepted,
                   was, replay, history>>

\* Line 49: player_b.verify_receipt(&receipt).
VerifyB ==
    /\ pc = "verify_b"
    /\ \E v \in {verify_receipt(player_b, receipt)} :
          /\ player_b' = v.client
          /\ verdict' = v.verdict
          /\ pc' = IF v.verdict = "Ok" THEN "adopt" ELSE "panicked"
          /\ panic' = IF v.verdict = "Ok" THEN panic ELSE "verify_receipt"
    /\ UNCHANGED <<engine, player_a, receipt, target, held, prior, accepted,
                   was, replay, history>>

\* Lines 51-52: server.game = resp.game, and back to the loop's test.
Adopt ==
    /\ pc = "adopt"
    /\ game' = receipt.journal.game
    /\ moves' = moves + 1
    /\ pc' = "loop"
    /\ UNCHANGED <<point, result, before, protocol, history, panic>>

\* Lines 35 and 55-60: the loop's test fails and the outcome is printed.
ExitLoop ==
    /\ pc = "loop"
    /\ game.state # InProgress
    /\ pc' = "ended_a"
    /\ UNCHANGED <<engine, protocol, history, panic>>

\* Line 62: player_a.on_game_ended().
EndedA ==
    /\ pc = "ended_a"
    /\ pc' = IF on_game_ended(player_a) THEN "ended_b" ELSE "panicked"
    /\ panic' = IF on_game_ended(player_a) THEN panic ELSE "on_game_ended"
    /\ UNCHANGED <<engine, protocol, history>>

\* Line 63: player_b.on_game_ended().
EndedB ==
    /\ pc = "ended_b"
    /\ pc' = IF on_game_ended(player_b) THEN "done" ELSE "panicked"
    /\ panic' = IF on_game_ended(player_b) THEN panic ELSE "on_game_ended"
    /\ UNCHANGED <<engine, protocol, history>>

Next ==
    \/ \E p \in Points : Turn(p)
    \/ VerifyA
    \/ VerifyB
    \/ Adopt
    \/ ExitLoop
    \/ EndedA
    \/ EndedB

Spec == Init /\ [][Next]_vars

(***************************************************************************)
(* main as a running program, one step per iteration of the turn loop:     *)
(* the body of the loop is sequential code, and its receipt is a local of  *)
(* the body.  A step that can be taken is taken: the read of stdin returns *)
(* a point whenever the loop asks for one.                                 *)
(***************************************************************************)
\* Lines 48-52 for the receipt r: both clients verify it, then the server
\* adopts its game; the first failed assertion panics out of main.
VerifyAndAdopt(r) ==
    \E va \in {verify_receipt(player_a, r)} :
      \E vb \in {verify_receipt(player_b, r)} :
        IF va.verdict # "Ok"
        THEN /\ verdict' = va.verdict
             /\ pc' = "panicked"
             /\ panic' = "verify_receipt"
             /\ UNCHANGED <<game, moves, player_a, player_b>>
        ELSE IF vb.verdict # "Ok"
             THEN /\ player_a' = va.client
                  /\ verdict' = vb.verdict
                  /\ pc' = "panicked"
                  /\ panic' = "verify_receipt"
                  /\ UNCHANGED <<game, moves, player_b>>
             ELSE /\ player_a' = va.client
                  /\ player_b' = vb.client
                  /\ verdict' = "Ok"
                  /\ game' = r.journal.game
                  /\ moves' = moves + 1
                  /\ UNCHANGED <<pc, panic>>

\* Lines 35-53: one iteration of the loop with the point p read from stdin.
Iteration(p) ==
    /\ pc = "loop"
    /\ game.state = InProgress
    /\ \E r \in {execute_move(game, p)} :
          IF r = Panicked
          THEN /\ pc' = "panicked"
               /\ panic' = "execute_move"
               /\ UNCHANGED <<game, moves, player_a, player_b, verdict>>
          ELSE VerifyAndAdopt(r)
    /\ UNCHANGED <<point, result, before, receipt, target, held, prior,
                   accepted, was, replay, history>>

\* Lines 35 and 55-63: the loop's test fails, the outcome is printed and
\* both clients are told that the game has ended.
Finish ==
    /\ pc = "loop"
    /\ game.state # InProgress
    /\ IF on_game_ended(player_a) /\ on_game_ended(player_b)
       THEN pc' = "done" /\ UNCHANGED panic
       ELSE pc' = "panicked" /\ panic' = "on_game_ended"
    /\ UNCHANGED <<engine, protocol, history>>

\* The points read from stdin: every cell of the board and one point off it.
LoopPoints ==
    {NewPoint(x, y) : x \in Idx, y \in Idx} \cup {NewPoint(CELL_COUNT, 0)}

NextLoop ==
    \/ \E p \in LoopPoints : Iteration(p)
    \/ Finish

SpecLoop == Init /\ [][NextLoop]_vars /\ WF_vars(NextLoop)

(***************************************************************************)
(* What the claims about the engine speak of.                              *)
(***************************************************************************)
\* The eight lines of the board, each a set of <<y, x>> places.
Lines ==
    {{<<y, x>> : x \in Idx} : y \in Idx}
    \cup {{<<y, x>> : y \in Idx} : x \in Idx}
    \cup {{<<i, i>> : i \in Idx}}
    \cup {{<<i, CELL_COUNT - 1 - i>> : i \in Idx}}

\* Some line of the board holds the mark c in all three places.
HasLine(board, c) ==
    \E line \in Lines : \A q \in line : board[q[1]][q[2]] = c

NoLine(board) == ~HasLine(board, "Player1") /\ ~HasLine(board, "Player2")

HasVacant(board) == \E y \in Idx, x \in Idx : board[y][x] = "Vacant"

Called == result # "None"

\* C2: when the evaluation run after a successful make_move sets the status
\* to Winner(p), player p holds all three cells of some row, column or
\* diagonal of the resulting board.
C2_WinnerOwnsLine ==
    \A p \in Player :
        (result = "Ok" /\ game.state = Winner(p))
            => HasLine(game.board, IntoCell(p))

\* C3: when a successful make_move from an InProgress state completes a line
\* of the player who just moved, the resulting status is Winner(that player).
C3_LineMakesWinner ==
    (result = "Ok" /\ HasLine(game.board, IntoCell(game.previous)))
        => game.state = Winner(game.previous)

\* C6 as stated: for every game state, a point with x >= 3 or y >= 3 makes
\* make_move return PointOutOfBounds and leave the state unchanged.
C6_OutOfBoundsAnyState ==
    (Called /\ OutOfBounds(point))
        => (result = "PointOutOfBounds" /\ game = before)

\* C6 amended: for every game state whose status is InProgress, a point with
\* x >= 3 or y >= 3 makes make_move return PointOutOfBounds and leave board,
\* previous and status unchanged.
C6_OutOfBoundsInProgress ==
    (Called /\ before.state = InProgress /\ OutOfBounds(point))
        => (result = "PointOutOfBounds" /\ game = before)

C6_Witness ==
    /\ result = "PointOutOfBounds"
    /\ before.state = InProgress
    /\ point.y >= CELL_COUNT
    /\ moves >= 2

\* C7 as stated: for every game state, an in-bounds point whose cell is not
\* Vacant makes make_move return CellOccupied and leave the state unchanged.
C7_OccupiedAnyState ==
    (Called /\ ~OutOfBounds(point) /\ before.board[point.y][point.x] # "Vacant")
        => (result = "CellOccupied" /\ game = before)

\* C7 amended: for every game state whose status is InProgress, an in-bounds
\* point whose cell is not Vacant makes make_move return CellOccupied and
\* leave board, previous and status unchanged.
C7_OccupiedInProgress ==
    (/\ Called
     /\ before.state = InProgress
     /\ ~OutOfBounds(point)
     /\ before.board[point.y][point.x] # "Vacant")
        => (result = "CellOccupied" /\ game = before)

C7_Witness ==
    /\ result = "CellOccupied"
    /\ before.state = InProgress
    /\ before.board[point.y][point.x] = "Player2"

\* C8: once the status is not InProgress, make_move returns GameFinished for
\* every point, out of bounds or occupied or vacant, and changes nothing.
C8_FinishedFirst ==
    (Called /\ before.state # InProgress)
        => (result = "GameFinished" /\ game = before)

C8_Witness ==
    /\ result = "GameFinished"
    /\ OutOfBounds(point)
    /\ before.state = Stalemate

\* C9: the k-th successful move places the mark of A when k is odd and of B
\* when k is even; a successful move flips previous, a failed one keeps it.
C9_TurnOrder ==
    /\ result = "Ok" =>
        /\ game.previous = Flip(before.previous)
        /\ game.previous = (IF moves % 2 = 1 THEN "A" ELSE "B")
        /\ before.board[point.y][point.x] = "Vacant"
        /\ game.board[point.y][point.x] = IntoCell(game.previous)
    /\ (Called /\ result # "Ok") => game.previous = before.previous
    /\ moves = 0 => game.previous = "B"

C9_Witness ==
    /\ result = "CellOccupied"
    /\ moves = 3
    /\ game.previous = "A"

\* C10: after a successful make_move the status is Stalemate exactly when the
\* board has no Vacant cell and no line of three equal marks; with no such
\* line and a Vacant cell left, the status stays InProgress.
C10_Stalemate ==
    result = "Ok" =>
        /\ (game.state = Stalemate)
             <=> (~HasVacant(game.board) /\ NoLine(game.board))
        /\ (NoLine(game.board) /\ HasVacant(game.board))
             => game.state = InProgress

C10_Witness ==
    /\ result = "Ok"
    /\ game.state = Stalemate
    /\ moves = CELL_COUNT * CELL_COUNT

(***************************************************************************)
(* What the claims about the verifier speak of.                            *)
(***************************************************************************)
Other == IF target = "player_a" THEN player_b ELSE player_a

Rejections == {"AlreadyEnded", "ProofInvalid", "HashMismatch"}

\* The points of the board.
BoardPoints == {NewPoint(x, y) : x \in Idx, y \in Idx}

\* C1: with an injective hash and seals that only the guest produces, every
\* receipt verify_receipt accepts carries make_move(S, p) for some point p,
\* S being the game whose hash the client held when the call started; the
\* client then holds the hash and the status of that result, and a receipt
\* whose journal was altered after proving is not accepted.
C1_AcceptedIsLegalMove ==
    /\ Target.state_hash = hash_bytes(as_bytes(held))
    /\ Target.game_state = held.state
    /\ verdict = "Ok" =>
        /\ receipt_verify(receipt)
        /\ was.state_hash = hash_bytes(as_bytes(prior))
        /\ held = receipt.journal.game
        /\ \E p \in BoardPoints :
              make_move(prior, p) = [game |-> held, result |-> "Ok"]

C1_Witness ==
    /\ verdict = "Ok"
    /\ prior # New
    /\ held.state = Winner("A")

\* C4: a receipt whose prev_state_hash differs from the hash the client
\* holds is rejected, as a hash mismatch when the game is in progress and the
\* proof is valid, and neither client record changes.
C4_HashChainRejection ==
    (verdict # "None" /\ receipt.journal.prev_state_hash # was.state_hash)
        => /\ verdict \in Rejections
           /\ Target = was
           /\ Other = NewClient
           /\ (was.game_state = InProgress /\ receipt_verify(receipt))
                 => verdict = "HashMismatch"

C4_Witness ==
    /\ verdict = "HashMismatch"
    /\ held # New
    /\ receipt.journal.prev_state_hash = initial_hash

\* C5 as stated: submitting an accepted receipt a second time fails with
\* HashMismatch.
C5_ReplayHashMismatch == replay => verdict = "HashMismatch"

\* C5 amended: submitting an accepted receipt a second time fails and leaves
\* the record unchanged: with HashMismatch when the receipt left the game in
\* progress, with AlreadyEnded when the receipt ended the game.
C5_ReplayRejected ==
    replay =>
        /\ verdict = (IF receipt.journal.game.state = InProgress
                      THEN "HashMismatch"
                      ELSE "AlreadyEnded")
        /\ Target = was

C5_Witness ==
    /\ replay
    /\ verdict = "HashMismatch"
    /\ receipt = accepted

\* C11: once the client's game_state is not InProgress, every verify_receipt
\* call fails with AlreadyEnded, whatever the proof and the previous hash of
\* the receipt, and the record stays as it is.
C11_AlreadyEnded ==
    (verdict # "None" /\ was.game_state # InProgress)
        => /\ verdict = "AlreadyEnded"
           /\ Target = was
           /\ Target.game_state = held.state
           /\ Other = NewClient

C11_Witness ==
    /\ verdict = "AlreadyEnded"
    /\ receipt_verify(receipt)
    /\ receipt # accepted
    /\ Target.game_state = Winner("A")

(***************************************************************************)
(* What the claims about main speak of.                                    *)
(***************************************************************************)
\* The client record that mirrors the game g.
Mirror(g) == [game_state |-> g.state, state_hash |-> hash_bytes(as_bytes(g))]

AfterLoop == pc \in {"ended_a", "ended_b", "done"}

\* C12: with the honest prover, when the server leaves the turn loop both
\* clients hold a status other than InProgress, and the assertion of
\* on_game_ended never fails.
C12_FinalizeNeverFails ==
    /\ panic # "on_game_ended"
    /\ AfterLoop =>
        /\ game.state # InProgress
        /\ player_a.game_state # InProgress
        /\ player_b.game_state # InProgress

C12_Witness ==
    /\ pc = "done"
    /\ player_a.game_state = Stalemate
    /\ player_b.game_state = Stalemate

\* C13: when make_move rejects the point the server asks the prover to play,
\* execute_move panics: no receipt is produced, main stops there and for
\* good, and the server's game and both client records are as they were.
C13_RejectedMoveIsFatal ==
    [][/\ pc # "panicked"
       /\ (pc = "loop" /\ game.state = InProgress
           /\ make_move(game, point').result # "Ok")
             => panic' = "execute_move"
       /\ panic' = "execute_move" =>
             /\ make_move(game, point').result
                    \in {"PointOutOfBounds", "CellOccupied"}
             /\ pc' = "panicked"
             /\ receipt' = receipt
             /\ game' = game
             /\ player_a' = player_a
             /\ player_b' = player_b]_vars

C13_Witness ==
    /\ panic = "execute_move"
    /\ make_move(game, point).result = "CellOccupied"
    /\ moves = 2
    /\ player_a = Mirror(game)

\* C15: at the loop's test and after the loop, both client records mirror
\* the server's game (its hash and its status) and are equal; while the
\* clients verify a receipt the server still holds the game the receipt was
\* proven from, and it adopts the new game only once both have accepted it.
C15_Mirroring ==
    /\ (pc = "loop" \/ AfterLoop) =>
        /\ player_a = Mirror(game)
        /\ player_b = Mirror(game)
        /\ player_a = player_b
    /\ pc \in {"verify_a", "verify_b", "adopt"} =>
        /\ receipt.journal.prev_state_hash = hash_bytes(as_bytes(game))
        /\ receipt.journal.game # game
    /\ pc = "verify_a" => (player_a = Mirror(game) /\ player_b = Mirror(game))
    /\ pc = "verify_b" =>
        (player_a = Mirror(receipt.journal.game) /\ player_b = Mirror(game))
    /\ pc = "adopt" =>
        /\ player_a = Mirror(receipt.journal.game)
        /\ player_b = Mirror(receipt.journal.game)

C15_Witness ==
    /\ pc = "adopt"
    /\ moves = 4
    /\ game.state = InProgress
    /\ receipt.journal.game.state = Winner("A")

(***************************************************************************)
(* Further claims about the engine.                                        *)
(***************************************************************************)
\* C14: after every successful move of a play from the initial state, when
\* the row/column scan has recorded a winner and a diagonal flag is true
\* after the scan, the diagonal's corner cell is the recorded winner's, so
\* the status is the one computed without the diagonal override.
C14_OverrideUnobservable ==
    LET st == Scan(game.board)
    IN (result = "Ok" /\ st.winner # "None") =>
        /\ st.left_diag => game.board[0][0] = st.winner
        /\ st.right_diag => game.board[0][CELL_COUNT - 1] = st.winner
        /\ game.state = Decide(st.winner, st.has_vacant, before.state)

\* C16: the status starts at InProgress and, once it is Stalemate or
\* Winner(p), no make_move call, successful or failing, changes the status or
\* the board again.
C16_StatusMonotonic ==
    /\ game.state = InProgress
    /\ [][/\ game.state \in State
          /\ game.state # InProgress =>
                (game'.state = game.state /\ game'.board = game.board)]_vars

C16_Witness ==
    /\ result = "GameFinished"
    /\ game.state = Stalemate
    /\ ~OutOfBounds(point)
    /\ moves = CELL_COUNT * CELL_COUNT

\* The number of cells of the board that hold c.
Marks(board, c) ==
    Cardinality({yx \in Idx \X Idx : board[yx[1]][yx[2]] = c})

\* C19: in every state of a play from the initial state, A's marks minus
\* B's marks is 0 or 1, it is 1 exactly when previous is A and 0 exactly
\* when previous is B, and the non-Vacant cells are as many as the
\* successful moves.
C19_MarkCount ==
    LET a == Marks(game.board, "Player1")
        b == Marks(game.board, "Player2")
    IN /\ a - b \in {0, 1}
       /\ a - b = 1 <=> game.previous = "A"
       /\ a - b = 0 <=> game.previous = "B"
       /\ a + b = moves
       /\ a + b + Marks(game.board, "Vacant") = CELL_COUNT * CELL_COUNT

C19_Witness ==
    /\ result = "CellOccupied"
    /\ moves = 5
    /\ Marks(game.board, "Player1") = 3
    /\ Marks(game.board, "Player2") = 2
    /\ game.previous = "A"

(***************************************************************************)
(* update_state on its own: it is run once on an object with any board     *)
(* content and any status, whether a play can produce it or not.           *)
(***************************************************************************)
Boards == [Idx -> [Idx -> Cell]]

InitBoards ==
    /\ game \in [board : Boards, previous : {"B"}, state : State]
    /\ point = NewPoint(0, 0)
    /\ result = "None"
    /\ before = game
    /\ moves = 0
    /\ InitProtocol
    /\ target = "player_a"

\* self.update_state()
Evaluate ==
    /\ result = "None"
    /\ game' = [game EXCEPT !.state = update_state(game)]
    /\ result' = "Evaluated"
    /\ UNCHANGED <<point, before, moves, protocol, host>>

NextBoards == Evaluate

SpecBoards == InitBoards /\ [][NextBoards]_vars

\* C20: for every board content, the cell update_state takes as the winner
\* is never Vacant, so the status it leaves is never the unreachable arm: a
\* row, column or diagonal flag is true after its scan only if the first
\* cell of that line is not Vacant.
C20_WinnerNeverVacant ==
    LET st == Scan(before.board)
    IN /\ game.state # Unreachable
       /\ st.winner # "Vacant"
       /\ DiagOverride(before.board, st) # "Vacant"
       /\ st.left_diag => before.board[0][0] # "Vacant"
       /\ st.right_diag => before.board[0][CELL_COUNT - 1] # "Vacant"
       /\ \A y \in Idx :
            /\ Horizontal(before.board, y) => before.board[y][0] # "Vacant"
            /\ Vertical(before.board, y) => before.board[0][y] # "Vacant"

\* A board no play produces (three marks of A, none of B, a Vacant corner)
\* has been evaluated and has a winner.
C20_Witness ==
    /\ result = "Evaluated"
    /\ game.state = Winner("A")
    /\ before.state = Stalemate
    /\ Marks(game.board, "Player1") = 3
    /\ Marks(game.board, "Player2") = 0
    /\ game.board[0][0] = "Vacant"

(***************************************************************************)
(* What the claim about stale receipts speaks of.                          *)
(***************************************************************************)
\* The game the target held, and the receipts it had accepted, when the
\* last verify_receipt call started.
HeldBefore == IF verdict = "Ok" THEN prior ELSE held

HistoryBefore ==
    IF verdict = "Ok" THEN SubSeq(history, 1, Len(history) - 1) ELSE history

\* C17: the games of a play never repeat; after the verifier has accepted
\* T1..Tn, a call with an earlier Ti, or with a valid receipt proven from a
\* game other than the one last accepted, is rejected and leaves the record
\* as it was; a call is accepted only with the previous hash of the game
\* last accepted.
C17_NoStaleAccepted ==
    /\ \A i \in 1 .. Len(history) :
         /\ history[i].journal.game # New
         /\ \A j \in 1 .. Len(history) :
              i # j => history[i].journal.game # history[j].journal.game
    /\ (verdict # "None" /\ Len(HistoryBefore) >= 1
        /\ (\/ \E i \in 1 .. Len(HistoryBefore) : receipt = HistoryBefore[i]
            \/ receipt.journal.prev_state_hash
                   # hash_bytes(as_bytes(HeldBefore))))
          => (verdict \in Rejections /\ Target = was)
    /\ verdict = "Ok" =>
          /\ receipt.journal.prev_state_hash = hash_bytes(as_bytes(prior))
          /\ receipt = history[Len(history)]
          /\ was = Mirror(prior)

C17_Witness ==
    /\ verdict = "HashMismatch"
    /\ Len(history) >= 3
    /\ receipt = history[1]
    /\ Target = was
    /\ Target = Mirror(history[Len(history)].journal.game)

\* C18: a play has at most 9 successful moves, a game that is InProgress has
\* a Vacant cell, and the running program ends: unless a point make_move
\* rejects is supplied (execute_move panics), the game reaches Stalemate or
\* Winner, the turn loop exits and main returns.
C18_Termination ==
    /\ [](/\ moves <= CELL_COUNT * CELL_COUNT
          /\ game.state = InProgress => HasVacant(game.board))
    /\ <>(panic = "execute_move" \/ (pc = "done" /\ game.state # InProgress))

C18_Witness ==
    /\ pc = "done"
    /\ moves = CELL_COUNT * CELL_COUNT
    /\ game.state = Winner("A")
    /\ panic = "None"

====
